---- MODULE Spec2Model ----
(***************************************************************************)
(* Run-queue execution coordinator of circleguard's gui.py: the           *)
(* presentation thread (add_circleguard_run, run_timer, cancel_run), the  *)
(* supervisor threads spawned by check_circleguard_queue and the run      *)
(* threads executing run_circleguard.                                     *)
(*                                                                         *)
(* Signals emitted by background threads are queued to the presentation   *)
(* thread and delivered in emission order; label and progressbar hold the *)
(* value the widget has once the events emitted so far are delivered.     *)
(***************************************************************************)
EXTENDS Integers, Sequences, FiniteSets, TLC

\* ---------------------------------------------------------------- bounds
MaxRuns == 2          \* submissions per behaviour
MaxThreads == 2       \* supervisor threads alive at the same time
MaxUnits == 2         \* loadable units of one run, over all its checks
MaxResults == 2       \* results the engine yields for one run
MaxChecks == 2        \* checks of a ScreenRun
MaxLength == 1        \* seconds of rate limit signalled during one run
MaxSimilarity == 2    \* similarities and display thresholds range over 0..MaxSimilarity

\* ------------------------------------------------------ program constants
INTERVAL_MS == 250    \* TrackerLoader.INTERVAL, in milliseconds

Kinds == {"MAP", "SCREEN", "LOCAL", "VERIFY"}
RunIds == 0..(MaxRuns - 1)

VARIABLES
    run_id,                 \* MainTab.run_id
    runs,                   \* MainTab.runs: sequence of Run objects
    cg_q,                   \* MainTab.cg_q: queue of run ids
    q,                      \* MainTab.q: queue of results
    helper_thread_running,  \* MainTab.helper_thread_running
    sup,                    \* the live supervisor threads (_check_circleguard_queue),
                            \* oldest first
    ex,                     \* ex[t]: the run thread (run_circleguard) of supervisor t
    label,                  \* WindowWrapper.current_state_label
    progressbar,            \* WindowWrapper.progressbar
    log,                    \* per run: everything the run thread emitted or called
    started,                \* run ids in the order of their first "Loading Replays"
    drained,                \* results taken off q by print_results, in order
    presetAtGet,            \* runs whose token was set when get_nowait returned them
    sleptAfterSet,          \* per run: sleeps of a backoff executed with the token set
    outcome,                \* per run: how run_circleguard was left
    lim                     \* the environment of this behaviour: how many runs the
                            \* user submits, how many supervisor threads fit, what
                            \* the engine returns at most, whether log is kept,
                            \* the similarities and verdicts of the results, the
                            \* setting threshold_display

vars == <<run_id, runs, cg_q, q, helper_thread_running, sup, ex, label,
          progressbar, log, started, drained, presetAtGet,
          sleptAfterSet, outcome, lim>>

hist == <<started, presetAtGet, sleptAfterSet, outcome, lim>>

\* ----------------------------------------------------------------- events
Lab(s) == [e |-> "label", s |-> s, n |-> 0]
Sta(s) == [e |-> "status", s |-> s, n |-> 0]
Prog(n) == [e |-> "progress", s |-> "", n |-> n]
Incr(n) == [e |-> "increment", s |-> "", n |-> n]
Term(s) == [e |-> "terminal", s |-> s, n |-> 0]
LoadCall(n) == [e |-> "load", s |-> "", n |-> n]
PutRes(n) == [e |-> "put", s |-> "", n |-> n]
Sleep(n) == [e |-> "sleep", s |-> "", n |-> n]
Kind(s) == [e |-> "kind", s |-> s, n |-> 0]
\* a check point: event.wait(0) is called and returns b
Chk(b) == [e |-> "check", s |-> "", n |-> IF b THEN 1 ELSE 0]

\* WindowWrapper.update_label
update_label(old, text) == text

\* WindowWrapper.set_progressbar: -1 resets, any other value sets range (0, max)
set_progressbar(pb, max_value) ==
    IF max_value = -1
    THEN [value |-> -1, maximum |-> 1]
    ELSE [value |-> 0, maximum |-> max_value]

\* WindowWrapper.increment_progressbar; QProgressBar ignores values out of range
increment_progressbar(pb, increment) ==
    IF pb.value + increment <= pb.maximum
    THEN [pb EXCEPT !.value = pb.value + increment]
    ELSE pb

RECURSIVE DeliverLabel(_, _)
DeliverLabel(old, evs) ==
    IF evs = <<>> THEN old
    ELSE DeliverLabel(IF Head(evs).e = "label" THEN update_label(old, Head(evs).s) ELSE old,
                      Tail(evs))

RECURSIVE DeliverProgress(_, _)
DeliverProgress(pb, evs) ==
    IF evs = <<>> THEN pb
    ELSE DeliverProgress(
            IF Head(evs).e = "progress" THEN set_progressbar(pb, Head(evs).n)
            ELSE IF Head(evs).e = "increment" THEN increment_progressbar(pb, Head(evs).n)
            ELSE pb,
            Tail(evs))

\* the run thread of run r emits evs (signals) or records calls
Emit(r, evs) ==
    IF lim.log
    THEN /\ log' = [log EXCEPT ![r] = @ \o evs]
         /\ label' = DeliverLabel(label, evs)
         /\ progressbar' = DeliverProgress(progressbar, evs)
    ELSE UNCHANGED <<log, label, progressbar>>

\* run thread: pc, the run, its kind, checks still to process (chks), units still
\* to load in the check (todo), units of the run so far (units), calls of
\* cg.load issued (unit), results yielded by the engine (res), sleeps left in
\* the backoff (rl), seconds of rate limit so far (rls), the call a backoff
\* interrupts (ret)
NoEx == [pc |-> "none", run |-> -1, kind |-> "", chks |-> 0, todo |-> 0,
         units |-> 0, unit |-> 0, res |-> 0, rl |-> 0, rls |-> 0, ret |-> ""]

Token(r) == runs[r + 1].event

InitProgram ==
    /\ run_id = 0
    /\ runs = <<>>
    /\ cg_q = <<>>
    /\ q = <<>>
    /\ helper_thread_running = FALSE
    /\ sup = <<>>
    /\ ex = <<>>
    /\ label = "Idle"
    /\ progressbar = [value |-> -1, maximum |-> 100]
    /\ log = [r \in RunIds |-> <<>>]
    /\ started = <<>>
    /\ drained = <<>>
    /\ presetAtGet = {}
    /\ sleptAfterSet = [r \in RunIds |-> 0]
    /\ outcome = [r \in RunIds |-> "none"]

\* several runs and supervisor threads, an engine that loads one unit, yields
\* no result and never signals a rate limit; the signals are not followed
Init ==
    /\ InitProgram
    /\ lim = [runs |-> MaxRuns, threads |-> MaxThreads, kinds |-> {"MAP", "SCREEN"},
              units |-> 1, results |-> 0, checks |-> 0, length |-> 0,
              log |-> FALSE, sims |-> {0}, cheats |-> {FALSE}, display |-> 0]

\* one run, the whole pipeline
InitRun ==
    /\ InitProgram
    /\ lim = [runs |-> 1, threads |-> 1, kinds |-> Kinds,
              units |-> MaxUnits, results |-> MaxResults,
              checks |-> MaxChecks, length |-> MaxLength, log |-> TRUE,
              sims |-> {0}, cheats |-> {FALSE}, display |-> 0]

\* several runs behind one supervisor thread, an engine that signals rate limits
InitBusy ==
    /\ InitProgram
    /\ lim = [runs |-> MaxRuns, threads |-> 1, kinds |-> {"MAP", "SCREEN"},
              units |-> 1, results |-> 1, checks |-> 1, length |-> MaxLength,
              log |-> FALSE, sims |-> {0}, cheats |-> {FALSE}, display |-> 0]

\* several runs behind two supervisor threads: the one a submission starts and
\* the one a timer tick starts before the first has set the latch
InitPair ==
    /\ InitProgram
    /\ lim = [runs |-> MaxRuns, threads |-> 2, kinds |-> {"MAP", "SCREEN"},
              units |-> 1, results |-> 0, checks |-> 0, length |-> 0,
              log |-> FALSE, sims |-> {0}, cheats |-> {FALSE}, display |-> 0]

\* one MapRun of one unit; the engine yields results of every similarity and
\* verdict, under every setting of threshold_display
InitDrain ==
    /\ InitProgram
    /\ \E d \in 0..MaxSimilarity :
          lim = [runs |-> 1, threads |-> 1, kinds |-> {"MAP"},
                 units |-> 1, results |-> MaxResults, checks |-> 0,
                 length |-> 0, log |-> FALSE,
                 sims |-> 0..MaxSimilarity, cheats |-> BOOLEAN, display |-> d]

\* ---------------------------------------------------- presentation thread
Threads == DOMAIN sup

\* sequence s without its t-th element
RemoveAt(s, t) == [i \in 1..(Len(s) - 1) |-> IF i < t THEN s[i] ELSE s[i + 1]]

\* the test of the latch that guards the spawn of a supervisor thread
LatchAllowsSpawn == ~helper_thread_running

\* MainTab.check_circleguard_queue, the part the presentation thread executes:
\* start a thread on _check_circleguard_queue unless the latch is set
check_circleguard_queue ==
    IF LatchAllowsSpawn
    THEN /\ Len(sup) < lim.threads
         /\ sup' = Append(sup, [pc |-> "get", run |-> -1])
         /\ ex' = Append(ex, NoEx)
    ELSE UNCHANGED <<sup, ex>>

\* event = threading.Event(); run = MapRun(self.run_id, event, ...)
NewRun(id) == [run_id |-> id, event |-> FALSE]

\* faulty variant: the counter is not advanced
NextRunIdSame(id) == id

\* self.run_id += 1
NextRunId(id) == id + 1

\* MainTab.add_circleguard_run
add_circleguard_run ==
    /\ run_id < lim.runs
    /\ runs' = Append(runs, NewRun(run_id))
    /\ cg_q' = Append(cg_q, run_id)
    /\ run_id' = NextRunId(run_id)
    /\ check_circleguard_queue
    /\ UNCHANGED <<q, helper_thread_running, label, progressbar, log, drained, hist>>

\* get_setting("threshold_display")
threshold_display == lim.display

\* faulty variant: the display threshold is inclusive
classify_inclusive(result) ==
    IF result.ischeat
    THEN {"write", "beep", "alert", "add_comparison_result"}
    ELSE IF result.similarity <= threshold_display
         THEN {"write"}
         ELSE {}

\* the body of the loop of print_results: what is done with one result
classify(result) ==
    IF result.ischeat
    THEN {"write", "beep", "alert", "add_comparison_result"}
    ELSE IF result.similarity < threshold_display
         THEN {"write"}
         ELSE {}

\* a result taken off q, with what print_results did with it
Consumed(result) ==
    [run |-> result.run, idx |-> result.idx, similarity |-> result.similarity,
     ischeat |-> result.ischeat, shown |-> classify(result)]

\* faulty variant: a result is handled twice
print_results_twice(results) ==
    drained \o [i \in DOMAIN results |-> Consumed(results[i])]
            \o [i \in DOMAIN results |-> Consumed(results[i])]

\* faulty variant: the results are taken off q and not handled
print_results_none(results) == drained

\* MainTab.print_results: takes every result off q
print_results(results) ==
    drained \o [i \in DOMAIN results |-> Consumed(results[i])]

\* faulty variant: Queue.get() returns only once the queue holds an item
GetReturns(queue) == queue # <<>>

\* self.q.get_nowait() returns at once, with an item or by raising Empty
GetNowaitReturns(queue) == TRUE

\* faulty variant: the timer tick prints the results and does not look at the
\* submission queue
run_timer_no_check ==
    /\ GetNowaitReturns(<<>>)
    /\ drained' = print_results(q)
    /\ q' = <<>>
    /\ UNCHANGED <<run_id, runs, cg_q, helper_thread_running, sup, ex, label,
                   progressbar, log, hist>>

\* WindowWrapper.run_timer: print_results, then check_circleguard_queue; the
\* loop of print_results ends with the call that finds q empty
run_timer ==
    /\ GetNowaitReturns(<<>>)
    /\ drained' = print_results(q)
    /\ q' = <<>>
    /\ check_circleguard_queue
    /\ UNCHANGED <<run_id, runs, cg_q, helper_thread_running, label, progressbar,
                   log, hist>>

\* faulty variant: a second call takes the cancellation back
EventToggle(run) == [run EXCEPT !.event = ~@]

\* run.event.set()
EventSet(run) == [run EXCEPT !.event = TRUE]

\* faulty variant: the cancellation also takes a run off the submission queue
cancel_run_pop(id) ==
    /\ id + 1 <= Len(runs)
    /\ runs' = [runs EXCEPT ![id + 1] = EventSet(@)]
    /\ cg_q' = IF cg_q = <<>> THEN cg_q ELSE Tail(cg_q)
    /\ UNCHANGED <<run_id, q, helper_thread_running, sup, ex, label,
                   progressbar, log, drained, hist>>

\* faulty variant: the run is looked up from the end of the list
cancel_run_last(id) ==
    /\ id + 1 <= Len(runs)
    /\ runs' = [runs EXCEPT ![Len(runs) - id] = EventSet(@)]
    /\ UNCHANGED <<run_id, cg_q, q, helper_thread_running, sup, ex, label,
                   progressbar, log, drained, hist>>

\* WindowWrapper.cancel_run (reached through QueueTab.cancel_run)
cancel_run(id) ==
    /\ id + 1 <= Len(runs)
    /\ runs' = [runs EXCEPT ![id + 1] = EventSet(@)]
    /\ UNCHANGED <<run_id, cg_q, q, helper_thread_running, sup, ex, label,
                   progressbar, log, drained, hist>>

\* faulty variant: only the first run of the list is canceled
cancel_first_run ==
    /\ runs' = [i \in DOMAIN runs |-> IF i = 1 THEN EventSet(runs[i]) ELSE runs[i]]
    /\ UNCHANGED <<run_id, cg_q, q, helper_thread_running, sup, ex, label,
                   progressbar, log, drained, hist>>

\* WindowWrapper.cancel_all_runs (lastWindowClosed): every run of main_tab.runs
cancel_all_runs ==
    /\ runs' = [i \in DOMAIN runs |-> EventSet(runs[i])]
    /\ UNCHANGED <<run_id, cg_q, q, helper_thread_running, sup, ex, label,
                   progressbar, log, drained, hist>>

\* ------------------------------------------------------ supervisor thread
\* faulty variant: the supervisor reads the head of the queue and leaves it there
sup_get_peek(t) ==
    /\ sup[t].pc = "get"
    /\ IF cg_q = <<>>
       THEN /\ sup' = [sup EXCEPT ![t].pc = "clear"]
            /\ UNCHANGED presetAtGet
       ELSE /\ sup' = [sup EXCEPT ![t] = [pc |-> "chk", run |-> Head(cg_q)]]
            /\ presetAtGet' = IF Token(Head(cg_q))
                              THEN presetAtGet \cup {Head(cg_q)} ELSE presetAtGet
    /\ UNCHANGED <<run_id, runs, cg_q, q, helper_thread_running, ex, label,
                   progressbar, log, drained, started, sleptAfterSet,
                   outcome, lim>>

\* run = self.cg_q.get_nowait(), or Empty
sup_get(t) ==
    /\ sup[t].pc = "get"
    /\ IF cg_q = <<>>
       THEN /\ sup' = [sup EXCEPT ![t].pc = "clear"]
            /\ UNCHANGED <<cg_q, presetAtGet>>
       ELSE /\ sup' = [sup EXCEPT ![t] = [pc |-> "chk", run |-> Head(cg_q)]]
            /\ cg_q' = Tail(cg_q)
            /\ presetAtGet' = IF Token(Head(cg_q))
                              THEN presetAtGet \cup {Head(cg_q)} ELSE presetAtGet
    /\ UNCHANGED <<run_id, runs, q, helper_thread_running, ex, label,
                   progressbar, log, drained, started, sleptAfterSet,
                   outcome, lim>>

\* faulty variant: the supervisor starts every run it dequeues
SkipNever(r) == FALSE

\* the supervisor's decision to discard a dequeued run: run.event.wait(0)
SkipRun(r) == Token(r)

\* faulty variant: the supervisor clears the event of a run it discards
sup_check_clears(t) ==
    /\ sup[t].pc = "chk"
    /\ IF SkipRun(sup[t].run)
       THEN /\ sup' = [sup EXCEPT ![t] = [pc |-> "get", run |-> -1]]
            /\ runs' = [runs EXCEPT ![sup[t].run + 1].event = FALSE]
            /\ UNCHANGED <<helper_thread_running, ex>>
       ELSE /\ helper_thread_running' = TRUE
            /\ ex' = [ex EXCEPT ![t] = [NoEx EXCEPT !.pc = "start",
                                                    !.run = sup[t].run]]
            /\ sup' = [sup EXCEPT ![t].pc = "join"]
            /\ UNCHANGED runs
    /\ UNCHANGED <<run_id, cg_q, q, label, progressbar, log, drained,
                   hist>>

\* if run.event.wait(0): continue -- else set the latch and start the run thread
sup_check(t) ==
    /\ sup[t].pc = "chk"
    /\ IF SkipRun(sup[t].run)
       THEN /\ sup' = [sup EXCEPT ![t] = [pc |-> "get", run |-> -1]]
            /\ UNCHANGED <<helper_thread_running, ex>>
       ELSE /\ helper_thread_running' = TRUE
            /\ ex' = [ex EXCEPT ![t] = [NoEx EXCEPT !.pc = "start",
                                                    !.run = sup[t].run]]
            /\ sup' = [sup EXCEPT ![t].pc = "join"]
    /\ UNCHANGED <<run_id, runs, cg_q, q, label, progressbar, log, drained,
                   hist>>

\* faulty variant: the supervisor returns and leaves the latch as it is
sup_return_only(t) ==
    /\ sup[t].pc = "clear"
    /\ sup' = RemoveAt(sup, t)
    /\ ex' = RemoveAt(ex, t)
    /\ UNCHANGED <<run_id, runs, cg_q, q, helper_thread_running, label,
                   progressbar, log, drained, hist>>

\* except Empty: self.helper_thread_running = False; return
sup_clear(t) ==
    /\ sup[t].pc = "clear"
    /\ helper_thread_running' = FALSE
    /\ sup' = RemoveAt(sup, t)
    /\ ex' = RemoveAt(ex, t)
    /\ UNCHANGED <<run_id, runs, cg_q, q, label, progressbar, log,
                   drained, hist>>

\* ------------------------------------------------------------- run thread
\* math.ceil(length / self.INTERVAL), length in seconds
CeilDiv(a, b) == (a + b - 1) \div b

\* faulty variant: one increment per second of the rate limit
rng_seconds(length) == length

\* rng = math.ceil(length / self.INTERVAL)
rng(length) == CeilDiv(length * 1000, INTERVAL_MS)

\* faulty variant: the abort forgets the label
CanceledNoLabel == <<Prog(-1)>>

\* faulty variant: the exit of the abort is caught by the handler of the run
\* and the two closing lines are executed
CanceledEventsCaught ==
    <<Lab("Canceled"), Prog(-1), Lab("Idle"), Sta("Finished")>>

\* what _check_event emits when it finds the token set, before sys.exit(0)
CanceledEvents == <<Lab("Canceled"), Prog(-1)>>
\* the two lines that end run_circleguard
EndEvents == <<Lab("Idle"), Sta("Finished")>>
\* faulty variant: the progressbar is reset after the run is marked finished
FinishedEventsResetLast == <<Term("finished")>> \o EndEvents \o <<Prog(-1)>>

\* normal completion
FinishedEvents == <<Prog(-1), Term("finished")>> \o EndEvents
\* faulty variant: the handler leaves the progressbar as it is
NoInfoEventsNoReset == <<Term("noinfo")>> \o EndEvents

\* except NoInfoAvailableException
NoInfoEvents == <<Term("noinfo"), Prog(-1)>> \o EndEvents
\* faulty variant: the handler returns, the two closing lines are not reached
ExceptionEventsNoEnd == <<[e |-> "log", s |-> "exception", n |-> 0]>>

\* except Exception
ExceptionEvents == <<[e |-> "log", s |-> "exception", n |-> 0]>> \o EndEvents
\* _ratelimited
RatelimitedEvents(length) ==
    <<[e |-> "terminal", s |-> "ratelimited", n |-> length],
      Lab("Ratelimited"), Sta("Ratelimited")>>
\* faulty variant: no branch touches the progressbar
CompareEventsNoProgress(kind) ==
    <<Term("comparing"), Lab("Comparing Replays"), Sta("Comparing Replays")>>

\* the block that opens the comparison; only the non-screen branch sets the
\* progressbar to the undetermined state
CompareEvents(kind) ==
    (IF kind = "SCREEN" THEN <<>> ELSE <<Prog(0)>>)
    \o <<Term("comparing"), Lab("Comparing Replays"), Sta("Comparing Replays")>>

\* faulty variant: the end of a run thread ends the supervisor loop
AfterJoinStop == "clear"

\* where the supervisor goes on when thread.join() returns: the while loop
AfterJoin == "get"

\* the run thread ends, by return or by sys.exit(0), and the supervisor's
\* thread.join() returns
Leave(t, how, evs) ==
    /\ Emit(ex[t].run, evs)
    /\ outcome' = [outcome EXCEPT ![ex[t].run] = how]
    /\ ex' = [ex EXCEPT ![t] = NoEx]
    /\ sup' = [sup EXCEPT ![t] = [pc |-> AfterJoin, run |-> -1]]

\* the run thread emits evs and goes on as thread
Stay(t, evs, thread) ==
    /\ Emit(ex[t].run, evs)
    /\ ex' = [ex EXCEPT ![t] = thread]
    /\ UNCHANGED <<sup, outcome>>

Finish(t, pre) == Leave(t, "finished", pre \o FinishedEvents)
NoInfo(t, pre) == Leave(t, "noinfo", pre \o NoInfoEvents)
Fail(t, pre) == Leave(t, "failed", pre \o ExceptionEvents)

\* faulty variant: a check that never sees the token
CheckEventNever(r) == FALSE

\* event.wait(0) inside _check_event
CheckEvent(r) == Token(r)

\* faulty variant: the abort emits its events and the thread goes on
check_event_no_exit(t, next) ==
    Stay(t, <<Chk(Token(ex[t].run))>>
            \o (IF CheckEvent(ex[t].run) THEN CanceledEvents ELSE <<>>),
         [ex[t] EXCEPT !.pc = next])

\* faulty variant: the exit of the abort takes the supervisor loop with it
check_event_exit_all(t, next) ==
    IF CheckEvent(ex[t].run)
    THEN /\ Emit(ex[t].run, <<Chk(Token(ex[t].run))>> \o CanceledEvents)
         /\ outcome' = [outcome EXCEPT ![ex[t].run] = "canceled"]
         /\ ex' = [ex EXCEPT ![t] = NoEx]
         /\ sup' = [sup EXCEPT ![t] = [pc |-> "clear", run |-> -1]]
    ELSE Stay(t, <<Chk(Token(ex[t].run))>>, [ex[t] EXCEPT !.pc = next])

\* _check_event(event); next is where the thread goes on when the token is unset
check_event(t, next) ==
    IF CheckEvent(ex[t].run)
    THEN Leave(t, "canceled", <<Chk(Token(ex[t].run))>> \o CanceledEvents)
    ELSE Stay(t, <<Chk(Token(ex[t].run))>>, [ex[t] EXCEPT !.pc = next])

\* lines 700-703
run_start(t) ==
    /\ ex[t].pc = "start"
    /\ Stay(t, <<Lab("Loading Replays"), Sta("Loading Replays")>>,
            [ex[t] EXCEPT !.pc = "build"])
    /\ started' = Append(started, ex[t].run)
    /\ UNCHANGED <<run_id, runs, cg_q, q, helper_thread_running, drained,
                   presetAtGet, sleptAfterSet, lim>>

\* lines 704-766 (screen) and 704-803 (other kinds): build the checks, load
\* their info, announce the number of units.  The run's parameters are opaque
\* to the queue: the kind chosen at submission shows here, at type(run) is ...
\* A ScreenRun with c checks of two loadables each announces 2 * c units.
run_build(t) ==
    /\ ex[t].pc = "build"
    /\ \/ Fail(t, <<>>)
       \/ NoInfo(t, <<>>)
       \/ /\ "SCREEN" \in lim.kinds
          /\ \E c \in 0..lim.checks :
                IF c = 0
                THEN Finish(t, <<Kind("SCREEN"), Prog(0)>>)
                ELSE Stay(t, <<Kind("SCREEN"), Prog(2 * c)>>,
                          [ex[t] EXCEPT !.pc = "info", !.kind = "SCREEN", !.chks = c])
       \/ \E kind \in lim.kinds \ {"SCREEN"}, n \in 0..lim.units :
             IF n = 0
             THEN Fail(t, <<Kind(kind), Prog(0)>>)  \* replays[0] raises IndexError
             ELSE Stay(t, <<Kind(kind), Prog(n)>> \o
                          (IF kind = "LOCAL" THEN <<>> ELSE <<Term("loading")>>),
                       [ex[t] EXCEPT !.pc = IF kind = "LOCAL" THEN "load0"
                                            ELSE "check_load",
                                     !.kind = kind, !.chks = 1, !.todo = n,
                                     !.units = n])
    /\ UNCHANGED <<run_id, runs, cg_q, q, helper_thread_running, drained,
                   started, presetAtGet, sleptAfterSet, lim>>

\* lines 770-776: cg.load_info(check_) of the next check of a ScreenRun
run_info(t) ==
    /\ ex[t].pc = "info"
    /\ \/ Fail(t, <<>>)
       \/ NoInfo(t, <<>>)
       \/ \E n \in 0..(lim.units - ex[t].units) :
             IF n = 0
             THEN Fail(t, <<>>)                \* loadables[0] raises IndexError
             ELSE Stay(t, <<Term("loading")>>,
                       [ex[t] EXCEPT !.pc = "check_load", !.todo = n,
                                     !.units = ex[t].units + n])
    /\ UNCHANGED <<run_id, runs, cg_q, q, helper_thread_running, drained,
                   started, presetAtGet, sleptAfterSet, lim>>

\* _check_event(event) in front of cg.load(replay), lines 778 and 808
run_check_load(t) ==
    /\ ex[t].pc = "check_load"
    /\ check_event(t, "load")
    /\ UNCHANGED <<run_id, runs, cg_q, q, helper_thread_running, drained,
                   started, presetAtGet, sleptAfterSet, lim>>

\* cg.load returns: which is "load0" for line 797, "load" for lines 779/809;
\* u is the number of load calls issued so far
LoadReturns(t, which, pre, u) ==
    \/ Fail(t, pre)
    \/ NoInfo(t, pre)
    \/ /\ which = "load0"
       /\ Stay(t, pre \o <<Term("loading")>>,
               [ex[t] EXCEPT !.pc = "check_load", !.unit = u])
    \/ /\ which = "load"
       /\ Stay(t, pre \o <<Incr(1)>>,
               [ex[t] EXCEPT !.pc = IF ex[t].todo = 1 THEN "compare" ELSE "check_load",
                             !.todo = ex[t].todo - 1, !.unit = u])
    \/ \E length \in 1..(lim.length - ex[t].rls) :
          Stay(t, pre \o RatelimitedEvents(length),
               [ex[t] EXCEPT !.pc = IF rng(length) = 0 THEN "resume" ELSE "sleep",
                             !.rl = rng(length), !.rls = ex[t].rls + length,
                             !.ret = which, !.unit = u])

\* cg.load(replay) is issued
run_load(t) ==
    /\ ex[t].pc \in {"load0", "load"}
    /\ LoadReturns(t, ex[t].pc, <<LoadCall(ex[t].unit + 1)>>, ex[t].unit + 1)
    /\ UNCHANGED <<run_id, runs, cg_q, q, helper_thread_running, drained,
                   started, presetAtGet, sleptAfterSet, lim>>

\* the interrupted call goes on after the backoff
run_resume(t) ==
    /\ ex[t].pc = "resume"
    /\ LoadReturns(t, ex[t].ret, <<>>, ex[t].unit)
    /\ UNCHANGED <<run_id, runs, cg_q, q, helper_thread_running, drained,
                   started, presetAtGet, sleptAfterSet, lim>>

\* TrackerLoader._ratelimit: time.sleep(self.INTERVAL)
ratelimit_sleep(t) ==
    /\ ex[t].pc = "sleep"
    /\ Stay(t, <<Sleep(INTERVAL_MS)>>, [ex[t] EXCEPT !.pc = "rlcheck",
                                                     !.rl = ex[t].rl - 1])
    /\ sleptAfterSet' = [sleptAfterSet EXCEPT ![ex[t].run] =
                            IF Token(ex[t].run) THEN @ + 1 ELSE @]
    /\ UNCHANGED <<run_id, runs, cg_q, q, helper_thread_running, drained,
                   started, presetAtGet, lim>>

\* where the backoff loop goes after an increment, with left increments to go
AfterIncrement(left) == IF left = 0 THEN "resume" ELSE "sleep"

\* faulty variant: one check, after the last increment of the backoff
CheckAfterLoop(left) == left = 0

\* check_stopped_signal.emit() stands inside the for loop: every sleep of the
\* backoff is followed by a check, whatever number of increments is left
CheckInLoop(left) == left >= 0

\* TrackerLoader._ratelimit: self.check_stopped_signal.emit() -> _check_event
ratelimit_check(t) ==
    /\ ex[t].pc = "rlcheck"
    /\ IF CheckInLoop(ex[t].rl)
       THEN check_event(t, AfterIncrement(ex[t].rl))
       ELSE Stay(t, <<>>, [ex[t] EXCEPT !.pc = AfterIncrement(ex[t].rl)])
    /\ UNCHANGED <<run_id, runs, cg_q, q, helper_thread_running, drained,
                   started, presetAtGet, sleptAfterSet, lim>>

\* lines 781-785 and 811-819: loading is over, the comparison is announced
run_compare(t) ==
    /\ ex[t].pc = "compare"
    /\ Stay(t, CompareEvents(ex[t].kind), [ex[t] EXCEPT !.pc = "next"])
    /\ UNCHANGED <<run_id, runs, cg_q, q, helper_thread_running, drained,
                   started, presetAtGet, sleptAfterSet, lim>>

\* for result in cg.run(check): the generator yields, ends or raises
run_next(t) ==
    /\ ex[t].pc = "next"
    /\ \/ Fail(t, <<>>)
       \/ /\ ex[t].res < lim.results
          /\ Stay(t, <<>>, [ex[t] EXCEPT !.pc = "check_result",
                                        !.res = ex[t].res + 1])
       \/ IF ex[t].chks > 1
          THEN Stay(t, <<>>, [ex[t] EXCEPT !.pc = "info", !.chks = ex[t].chks - 1])
          ELSE Finish(t, <<>>)
    /\ UNCHANGED <<run_id, runs, cg_q, q, helper_thread_running, drained,
                   started, presetAtGet, sleptAfterSet, lim>>

\* _check_event(event) in front of self.q.put(result), lines 787 and 821
run_check_result(t) ==
    /\ ex[t].pc = "check_result"
    /\ check_event(t, "put")
    /\ UNCHANGED <<run_id, runs, cg_q, q, helper_thread_running, drained,
                   started, presetAtGet, sleptAfterSet, lim>>

\* faulty variant: a stack instead of a queue
QueuePutFront(queue, x) == <<x>> \o queue

\* Queue.put
QueuePut(queue, x) == Append(queue, x)

\* self.q.put(result), lines 788 and 822
run_put(t) ==
    /\ ex[t].pc = "put"
    /\ \E sim \in lim.sims, cheat \in lim.cheats :
          q' = QueuePut(q, [run |-> ex[t].run, idx |-> ex[t].res,
                            similarity |-> sim, ischeat |-> cheat])
    /\ Stay(t, <<PutRes(ex[t].res)>>, [ex[t] EXCEPT !.pc = "next"])
    /\ UNCHANGED <<run_id, runs, cg_q, helper_thread_running, drained,
                   started, presetAtGet, sleptAfterSet, lim>>

\* ------------------------------------------------------------------- spec
Next ==
    \/ add_circleguard_run
    \/ run_timer
    \/ \E id \in RunIds : cancel_run(id)
    \/ cancel_all_runs
    \/ \E t \in Threads :
          \/ sup_get(t)
          \/ sup_check(t)
          \/ sup_clear(t)
          \/ run_start(t)
          \/ run_build(t)
          \/ run_info(t)
          \/ run_check_load(t)
          \/ run_load(t)
          \/ run_resume(t)
          \/ ratelimit_sleep(t)
          \/ ratelimit_check(t)
          \/ run_compare(t)
          \/ run_next(t)
          \/ run_check_result(t)
          \/ run_put(t)

\* the actions of an engine without rate limits, results and checks of a screen
NextQueue ==
    \/ add_circleguard_run
    \/ run_timer
    \/ \E id \in RunIds : cancel_run(id)
    \/ cancel_all_runs
    \/ \E t \in Threads :
          \/ sup_get(t)
          \/ sup_check(t)
          \/ sup_clear(t)
          \/ run_start(t)
          \/ run_build(t)
          \/ run_check_load(t)
          \/ run_load(t)
          \/ run_compare(t)
          \/ run_next(t)

\* the actions of a MapRun whose engine never signals a rate limit
NextDrain ==
    \/ add_circleguard_run
    \/ run_timer
    \/ \E id \in RunIds : cancel_run(id)
    \/ cancel_all_runs
    \/ \E t \in Threads :
          \/ sup_get(t)
          \/ sup_check(t)
          \/ sup_clear(t)
          \/ run_start(t)
          \/ run_build(t)
          \/ run_check_load(t)
          \/ run_load(t)
          \/ run_compare(t)
          \/ run_next(t)
          \/ run_check_result(t)
          \/ run_put(t)

Spec == Init /\ [][NextQueue]_vars

SpecBusy == InitBusy /\ [][Next]_vars

\* a step of the t-th live supervisor thread or of its run thread
ThreadStep(t) ==
    /\ t \in Threads
    /\ \/ sup_get(t)
       \/ sup_check(t)
       \/ sup_clear(t)
       \/ run_start(t)
       \/ run_build(t)
       \/ run_info(t)
       \/ run_check_load(t)
       \/ run_load(t)
       \/ run_resume(t)
       \/ ratelimit_sleep(t)
       \/ ratelimit_check(t)
       \/ run_compare(t)
       \/ run_next(t)
       \/ run_check_result(t)
       \/ run_put(t)

\* every started thread is scheduled, every external call returns, and the
\* QTimer of start_timer keeps ticking
Fairness ==
    /\ \A t \in 1..MaxThreads : WF_vars(ThreadStep(t))
    /\ WF_vars(run_timer)

SpecBusyFair == SpecBusy /\ Fairness

SpecPairFair == InitPair /\ [][NextQueue]_vars /\ Fairness

SpecDrain == InitDrain /\ [][NextDrain]_vars

SpecRun == InitRun /\ [][Next]_vars

\* ----------------------------------------------------------------- claims
Range(s) == {s[i] : i \in DOMAIN s}
Count(s, ev) == Cardinality({i \in DOMAIN s : s[i] = ev})
Positions(s, ev) == {i \in DOMAIN s : s[i] = ev}
\* the run threads that have entered run_circleguard and emitted "Loading Replays"
InExecutor == {t \in Threads : ex[t].pc \notin {"none", "start"}}
\* the results of run r on a stream, in the stream's order
ResultsOf(stream, r) == SelectSeq(stream, LAMBDA x : x.run = r)

\* C1: single-flight -- at no point are two runs inside run_circleguard
\* (Loading or Comparing) at the same time.
C1_SingleFlight == Cardinality(InExecutor) <= 1

\* C2: the latch test and its setting are one atomic check-and-set, so at most
\* one supervisor loop is alive (dequeuing from cg_q) at any time.
C2_OneSupervisor == Len(sup) <= 1

\* C3: runs emit their first "Loading Replays" in submission order (the runs
\* whose token was set at dequeue time left out).
C3_StartedInOrder ==
    \A i, j \in DOMAIN started : i < j => started[i] < started[j]

\* C4: a run whose token is set before the supervisor dequeues it is discarded
\* silently: no status event, no label change, no load call, no result.
C4_CancelSkip ==
    \A r \in presetAtGet :
        /\ log[r] = <<>>
        /\ r \notin Range(started)
        /\ outcome[r] = "none"
        /\ ResultsOf(drained \o q, r) = <<>>
        /\ \A t \in Threads : ex[t].run # r

C4_Witness ==
    \E r \in presetAtGet :
        /\ \A t \in Threads : sup[t].run # r
        /\ r \notin Range(cg_q)

C6_PutOnlyAfterUnsetCheck ==
    \A r \in RunIds :
        /\ \A i \in DOMAIN log[r] :
              log[r][i].e = "put" => i > 1 /\ log[r][i - 1] = Chk(FALSE)
        /\ \A i, j \in DOMAIN log[r] :
              log[r][i] = Chk(TRUE) /\ log[r][j].e = "put" => j < i
        /\ LET puts == SelectSeq(log[r], LAMBDA x : x.e = "put")
           IN  Len(ResultsOf(drained \o q, r)) = Len(puts)

\* canceled after a first push: the pushed result is still on the stream
C6_Witness ==
    \E r \in RunIds :
        /\ Count(log[r], Chk(TRUE)) = 1
        /\ Count(log[r], PutRes(1)) = 1
        /\ Len(ResultsOf(q, r)) = 1

\* C7: once the token is set, a backoff sleeps at most one more increment
\* before the run aborts.
C7_RatelimitResponsive ==
    \A r \in RunIds :
        /\ sleptAfterSet[r] <= 1
        /\ \A t \in Threads :
              ex[t].run = r /\ sleptAfterSet[r] = 1 => ex[t].pc = "rlcheck"

\* the token was set during the first increment of a backoff of 4: the run
\* aborted after that one sleep
C7_Witness ==
    \E r \in RunIds :
        /\ outcome[r] = "canceled"
        /\ sleptAfterSet[r] = 1
        /\ Count(log[r], Sleep(INTERVAL_MS)) = 1

\* C8: the results of a run are on the result stream, and are taken off it by
\* print_results, in the order the engine produced them.
C8_ResultOrder ==
    \A r \in RunIds :
        LET rs == ResultsOf(drained \o q, r)
        IN  \A i \in DOMAIN rs : rs[i].idx = i

C8_Witness ==
    \E r \in RunIds :
        /\ Len(ResultsOf(drained, r)) >= 1
        /\ Len(ResultsOf(drained \o q, r)) >= 2

\* C9: a run that fails (NoInfoAvailable or any other exception) does not stop
\* the supervisor loop: the step in which it fails leaves its supervisor in the
\* loop, about to dequeue, with the queue as it was.
C9_FailureIsolation ==
    [][\A t \in Threads :
          /\ ex[t].pc # "none"
          /\ outcome'[ex[t].run] \in {"failed", "noinfo"}
          /\ outcome[ex[t].run] = "none"
          => /\ Len(sup') = Len(sup)
             /\ sup'[t].pc = "get"
             /\ ex'[t].pc = "none"
             /\ cg_q' = cg_q]_vars

\* a run queued behind a failing one was executed and finished
C9_Witness ==
    /\ run_id >= 2
    /\ outcome[0] = "failed"
    /\ outcome[1] = "finished"
    /\ started = <<0, 1>>

\* C10: a run that fails with an unexpected exception is marked Finished: its
\* last events are label "Idle" and status (run_id, "Finished").
C10_FailedIsFinished ==
    \A r \in RunIds :
        outcome[r] = "failed" =>
            /\ Len(log[r]) >= 2
            /\ log[r][Len(log[r]) - 1] = Lab("Idle")
            /\ log[r][Len(log[r])] = Sta("Finished")
            /\ Count(log[r], Sta("Finished")) = 1

\* failed while comparing
C10_Witness ==
    \E r \in RunIds :
        /\ outcome[r] = "failed"
        /\ Count(log[r], Sta("Comparing Replays")) >= 1

\* the last n elements of s
LastN(s, n) == SubSeq(s, Len(s) - n + 1, Len(s))
Ended == {"finished", "noinfo", "failed"}

\* C11: a run in which load_info or load raises NoInfoAvailable ends there: the
\* message is written, the progressbar is reset (-1), the label goes to "Idle"
\* and the status to "Finished"; the result stream is left as it is, then and
\* afterwards; the supervisor is back in its loop, about to dequeue.
C11_NoInfoAborts ==
    [][\A r \in RunIds :
          /\ outcome[r] = "none" /\ outcome'[r] = "noinfo"
             => /\ Len(log'[r]) >= 4
                /\ LastN(log'[r], 4) = <<Term("noinfo"), Prog(-1), Lab("Idle"),
                                         Sta("Finished")>>
                /\ q' = q
                /\ Len(sup') = Len(sup)
                /\ \A t \in Threads :
                      ex[t].run = r => sup'[t].pc = "get" /\ ex'[t].pc = "none"
          /\ outcome[r] = "noinfo"
             => /\ outcome'[r] = "noinfo"
                /\ log'[r] = log[r]
                /\ Len(ResultsOf(drained' \o q', r)) = Len(ResultsOf(drained \o q, r))]_vars

\* NoInfoAvailable in the second check of a ScreenRun, after a result of the
\* first; the result has been taken off the stream since
C11_Witness ==
    \E r \in RunIds :
        /\ outcome[r] = "noinfo"
        /\ Count(log[r], PutRes(1)) = 1
        /\ Len(ResultsOf(drained, r)) = 1
        /\ sup = <<>>

\* C12: a run is past its first "Loading Replays" only when every run
\* submitted before it has emitted "Finished" (no run canceled).
C12_StartsAfterFinished ==
    \A a, b \in DOMAIN runs :
        /\ a < b
        /\ ~runs[a].event /\ ~runs[b].event
        /\ \E t \in InExecutor : ex[t].run = b - 1
        => outcome[a - 1] \in Ended

\* C13: the token of a run is unset when the run is created, and no step of any
\* thread unsets a token that is set.
C13_TokenMonotonic ==
    [][/\ \A i \in DOMAIN runs :
             i \in DOMAIN runs' /\ (runs[i].event => runs'[i].event)
       /\ \A i \in DOMAIN runs' \ DOMAIN runs : ~runs'[i].event]_vars

\* a run canceled after its last check point has finished, and a second run
\* has been submitted since
C13_Witness ==
    /\ Len(runs) = 2
    /\ runs[1].event /\ ~runs[2].event
    /\ outcome[0] = "finished"

\* C14: cancel_run on a run whose token is set already changes nothing: not
\* the token, not the submission queue, not the latch, not the result stream.
C14_CancelIdempotent ==
    [][\A id \in RunIds :
          id + 1 <= Len(runs) /\ Token(id) /\ cancel_run(id)
          => /\ runs' = runs
             /\ cg_q' = cg_q
             /\ helper_thread_running' = helper_thread_running
             /\ q' = q
             /\ drained' = drained]_vars

\* a canceled run is still executing, another run waits in the queue
C14_Witness ==
    /\ cg_q # <<>>
    /\ \E t \in InExecutor : Token(ex[t].run)

\* C15: the k-th run submitted has run_id k, counting from 0: the ids are
\* unique, in submission order, and the counter is the number of runs.
C15_RunIdsInOrder ==
    /\ run_id = Len(runs)
    /\ \A k \in DOMAIN runs : runs[k].run_id = k - 1
    /\ \A i, j \in DOMAIN runs : i # j => runs[i].run_id # runs[j].run_id

\* two runs: one canceled, one completed
C15_Witness ==
    /\ Len(runs) = 2
    /\ runs[1].event
    /\ outcome[1] = "finished"

\* the status events of run r, in the order of their emission
Statuses(r) ==
    LET evs == SelectSeq(log[r], LAMBDA x : x.e = "status")
    IN  [i \in DOMAIN evs |-> evs[i].s]

\* C16: with no run in the executor the label is "Idle", also after a run that
\* was canceled or that failed; with a run in the executor the label is the
\* latest status of that run.
C16_LabelMirrorsExecutor ==
    /\ InExecutor = {} => label = "Idle"
    /\ \A t \in InExecutor :
          LET st == Statuses(ex[t].run)
          IN  st # <<>> /\ label = st[Len(st)]

\* the transitions of the run status machine between status events
StatusMachine ==
    {<<"Loading Replays", "Ratelimited">>, <<"Ratelimited", "Loading Replays">>,
     <<"Loading Replays", "Comparing Replays">>, <<"Loading Replays", "Finished">>,
     <<"Comparing Replays", "Finished">>}

\* C17: the status events of a run are a path of the status machine: the first
\* is "Loading Replays", and each next one either repeats the status or is a
\* transition of the machine -- after "Ratelimited" comes "Loading Replays",
\* "Ratelimited" never follows "Comparing Replays".
C17_StatusPath ==
    \A r \in RunIds :
        LET st == Statuses(r)
        IN  /\ st # <<>> => st[1] = "Loading Replays"
            /\ \A i \in 1..(Len(st) - 1) :
                  st[i + 1] = st[i] \/ <<st[i], st[i + 1]>> \in StatusMachine

\* the model has room for the supervisor thread check_circleguard_queue starts
SpawnFits == LatchAllowsSpawn => Len(sup) < lim.threads

\* C18: the handlers of the presentation thread can be executed to their end in
\* every state, whatever the supervisor and the run thread are doing: the timer
\* tick (print_results, check_circleguard_queue), the submission while the user
\* has runs to submit, the cancellation of every submitted run.
C18_PresentationNeverBlocks ==
    /\ SpawnFits => ENABLED run_timer
    /\ SpawnFits /\ run_id < lim.runs => ENABLED add_circleguard_run
    /\ \A id \in RunIds : id < run_id => ENABLED cancel_run(id)
    /\ ENABLED cancel_all_runs

\* a run sleeps in a backoff, the user has another run to submit
C18_Witness ==
    /\ run_id >= 1 /\ run_id < lim.runs
    /\ SpawnFits
    /\ \E t \in Threads : ex[t].pc = "sleep"

\* which results a stream holds: run and index of each
Keys(stream) == [i \in DOMAIN stream |-> <<stream[i].run, stream[i].idx>>]

\* C19: every result pushed is handled by print_results exactly once: a step
\* either leaves the results (handled, then waiting) as they are or pushes one
\* more at the end; a drain empties q and handles what q held, in order, after
\* what was handled before; no result is there twice.
C19_ConsumedOnce ==
    [][/\ \/ Keys(drained' \o q') = Keys(drained \o q)
          \/ \E t \in Threads :
                Keys(drained' \o q') =
                    Append(Keys(drained \o q), <<ex[t].run, ex[t].res>>)
       /\ drained' # drained => q' = <<>> /\ Keys(drained') = Keys(drained \o q)
       /\ \A i, j \in DOMAIN Keys(drained' \o q') :
             i # j => Keys(drained' \o q')[i] # Keys(drained' \o q')[j]]_vars

\* the run is over and all its results went through print_results
C19_Witness ==
    /\ outcome[0] = "finished"
    /\ q = <<>>
    /\ Len(drained) >= 2

\* C20: what print_results does with a result depends on the result and on
\* threshold_display only: a cheat is written, alerted and added to the results;
\* any other result below the display threshold is written only; the rest is
\* dropped without output.
C20_Classification ==
    \A i \in DOMAIN drained :
        LET d == drained[i]
        IN  /\ d.ischeat
               => d.shown = {"write", "beep", "alert", "add_comparison_result"}
            /\ ~d.ischeat /\ d.similarity < lim.display => d.shown = {"write"}
            /\ ~d.ischeat /\ d.similarity >= lim.display => d.shown = {}
            /\ \A j \in DOMAIN drained :
                  /\ drained[j].ischeat = d.ischeat
                  /\ drained[j].similarity = d.similarity
                  => drained[j].shown = d.shown

\* a cheat at the display threshold was alerted, another result at the
\* threshold was dropped
C20_Witness ==
    \E i, j \in DOMAIN drained :
        /\ drained[i].ischeat /\ drained[i].similarity = lim.display
        /\ "alert" \in drained[i].shown
        /\ ~drained[j].ischeat /\ drained[j].similarity = lim.display
        /\ drained[j].shown = {}

\* C21: every call of cg.load, of every kind of run, comes right after a check
\* of the token that found it unset.
C21_CheckBeforeEveryLoad ==
    \A r \in RunIds :
        \A i \in DOMAIN log[r] :
            log[r][i].e = "load" => i > 1 /\ log[r][i - 1] = Chk(FALSE)

\* the events of run r after position i
After(r, i) == SubSeq(log[r], i + 1, Len(log[r]))

\* C22: a run aborted at a check point resets the progressbar and leaves the
\* pipeline: after the check that found the token set there is one
\* set_progressbar(-1) and no load call, no "Comparing Replays", no result,
\* no status event, no terminal message; the run thread is gone.
C22_AbortLeavesPipeline ==
    \A r \in RunIds :
        \A i \in Positions(log[r], Chk(TRUE)) :
            /\ Count(After(r, i), Prog(-1)) = 1
            /\ \A j \in DOMAIN After(r, i) :
                  After(r, i)[j].e \notin {"load", "put", "status", "terminal",
                                           "check", "sleep", "increment"}
            /\ \A t \in Threads : ex[t].run # r
            /\ outcome[r] = "canceled"

\* aborted while loading, before the second unit: one load call, no comparison
C22_Witness ==
    \E r \in RunIds :
        /\ outcome[r] = "canceled"
        /\ Count(log[r], LoadCall(1)) = 1
        /\ Count(log[r], LoadCall(2)) = 0
        /\ Count(log[r], Sta("Comparing Replays")) = 0
        /\ Count(log[r], Kind("LOCAL")) = 0

\* the kind of run r, once run_circleguard has looked at type(run)
KindOf(r) ==
    LET ks == SelectSeq(log[r], LAMBDA x : x.e = "kind")
    IN  IF ks = <<>> THEN "" ELSE ks[1].s

\* every result pushed at position i of log[r] comes after a "Comparing
\* Replays" status with no load call in between
ComparingBeforePut(r) ==
    \A i \in DOMAIN log[r] :
        log[r][i].e = "put"
        => \E j \in 1..(i - 1) :
              /\ log[r][j] = Sta("Comparing Replays")
              /\ \A m \in j..i : log[r][m].e # "load"

StatusBefore(r, i) ==
    LET st == SelectSeq(SubSeq(log[r], 1, i - 1), LAMBDA x : x.e = "status")
    IN  IF st = <<>> THEN "" ELSE st[Len(st)].s

\* C24: the sub-checks of a ScreenRun run one after the other, each with its
\* own Loading and Comparing: between a load call and a later result there is
\* a "Comparing Replays", and a unit is loaded under the status "Loading
\* Replays" (or "Ratelimited"), never under the "Comparing Replays" of the
\* sub-check before.
C24_ScreenSubChecks ==
    \A r \in RunIds :
        KindOf(r) = "SCREEN"
        => /\ ComparingBeforePut(r)
           /\ \A i \in DOMAIN log[r] :
                 log[r][i].e = "load"
                 => StatusBefore(r, i) \in {"Loading Replays", "Ratelimited"}

\* C25: a run that completes emits set_progressbar(-1) and then the status
\* "Finished", each once, after every result it pushed.
C25_CompletionEvents ==
    \A r \in RunIds :
        outcome[r] = "finished"
        => /\ Len(log[r]) >= 4
           /\ LastN(log[r], 4) = <<Prog(-1), Term("finished"), Lab("Idle"),
                                   Sta("Finished")>>
           /\ Count(log[r], Prog(-1)) = 1
           /\ Count(log[r], Sta("Finished")) = 1
           /\ \A i \in DOMAIN log[r] :
                 log[r][i].e \in {"put", "load", "check"} => i < Len(log[r]) - 3
           /\ Count(log[r], Chk(TRUE)) = 0

\* a run completed after two results
C25_Witness ==
    \E r \in RunIds :
        /\ outcome[r] = "finished"
        /\ Count(log[r], PutRes(2)) = 1
        /\ Len(ResultsOf(drained \o q, r)) = 2

\* C26: a rate limit of L seconds is announced by one "Ratelimited" status and
\* waited for in 4 * L increments (ceil(L / 0.25)), each a sleep of INTERVAL
\* followed by one check of the token; the check that finds the token set ends
\* the wait; after the last increment with the token unset the interrupted
\* load goes on and the run is not ended by the rate limit.
C26_BackoffIncrements ==
    \A r \in RunIds :
        \A i \in DOMAIN log[r] :
            log[r][i].e = "terminal" /\ log[r][i].s = "ratelimited"
            => LET L == log[r][i].n
                   w == After(r, i + 2)      \* what follows the announcement
                   k == 2 * 4 * L            \* events of a complete wait
               IN  /\ Len(log[r]) >= i + 2
                   /\ log[r][i + 1] = Lab("Ratelimited")
                   /\ log[r][i + 2] = Sta("Ratelimited")
                   /\ \A j \in 1..k :
                         j <= Len(w) /\ (\A m \in 1..(j - 1) : w[m] # Chk(TRUE))
                         => IF j % 2 = 1 THEN w[j] = Sleep(INTERVAL_MS)
                                         ELSE w[j].e = "check"
                   /\ (Len(w) > k /\ \A m \in 1..k : w[m] # Chk(TRUE))
                      => w[k + 1].e \notin {"sleep", "check"}
                   /\ (Len(w) = k /\ \A m \in 1..k : w[m] # Chk(TRUE))
                      => /\ outcome[r] = "none"
                         /\ \E t \in Threads : ex[t].run = r /\ ex[t].pc = "resume"
                   /\ Len(w) < k /\ (\A m \in 1..Len(w) : w[m] # Chk(TRUE))
                      => outcome[r] = "none"

\* a rate limit of one second was waited for to its end and the unit loaded
C26_Witness ==
    \E r \in RunIds :
        /\ Count(log[r], Sleep(INTERVAL_MS)) = 4
        /\ Count(log[r], Chk(TRUE)) = 0
        /\ Count(log[r], Sta("Ratelimited")) = 1
        /\ Count(log[r], Incr(1)) >= 1
        /\ outcome[r] = "finished"

\* C27: the latch is cleared only by a supervisor that found the queue empty,
\* in the step in which it stops; a supervisor stops in no other way; hence
\* with no supervisor alive the latch is clear.
C27_LatchClearedOnEmpty ==
    [][/\ helper_thread_running /\ ~helper_thread_running'
          => \E t \in Threads : sup[t].pc = "clear" /\ sup' = RemoveAt(sup, t)
       /\ Len(sup') < Len(sup) => ~helper_thread_running'
       /\ Len(sup') = Len(sup)
          => \A t \in Threads :
                sup'[t].pc = "clear" /\ sup[t].pc # "clear"
                => sup[t].pc = "get" /\ cg_q = <<>>
       /\ sup' = <<>> => ~helper_thread_running']_vars

\* an aborted run and a failed run later, no supervisor is left
C27_Witness ==
    /\ sup = <<>>
    /\ outcome[0] = "canceled"
    /\ outcome[1] = "failed"
    /\ cg_q = <<>>

\* C28: however a run ends (finished, canceled at a check point, failed), the
\* supervisor that waited for it is back in its loop, and its next step
\* dequeues the head of the queue or, the queue empty, goes to clear the latch.
C28_OutcomesRelease ==
    [][Len(sup') = Len(sup)
       => \A t \in Threads :
             /\ (/\ ex[t].pc # "none"
                 /\ outcome[ex[t].run] = "none"
                 /\ outcome'[ex[t].run] # "none")
                => /\ outcome'[ex[t].run] \in Ended \cup {"canceled"}
                   /\ sup'[t] = [pc |-> "get", run |-> -1]
                   /\ ex'[t] = NoEx
                   /\ cg_q' = cg_q
                   /\ helper_thread_running' = helper_thread_running
             /\ sup[t].pc = "get" /\ sup'[t] # sup[t]
                => IF cg_q = <<>>
                   THEN sup'[t].pc = "clear"
                   ELSE sup'[t] = [pc |-> "chk", run |-> Head(cg_q)]
             /\ sup[t].pc = "join" /\ sup'[t].pc # "join"
                => outcome'[sup[t].run] # "none"]_vars

\* the supervisor executed and finished a run after an aborted one
C28_Witness ==
    /\ started = <<0, 1>>
    /\ outcome[0] = "canceled"
    /\ outcome[1] = "finished"

StatusEvents(l) == SelectSeq(l, LAMBDA x : x.e = "status")

AllSet == runs # <<>> /\ \A i \in DOMAIN runs : runs[i].event
Quiet ==
    /\ \A t \in Threads : ex[t].pc = "none"
    /\ ~helper_thread_running
    /\ cg_q = <<>>

C31_LatchWhileExecuting == InExecutor # {} => helper_thread_running

\* C32: no lost wake-up -- the timer ticking, threads being scheduled and calls
\* returning, every run submitted is handed to the executor (emits its first
\* "Loading Replays") unless its token is set; also a run submitted while
\* the supervisor, having found the queue empty, has not yet cleared the latch,
\* so that the submission starts no supervisor.
C32_NoLostWakeup ==
    /\ [][/\ add_circleguard_run
          /\ \E t \in Threads : sup[t].pc = "clear"
          /\ helper_thread_running
          => sup' = sup /\ cg_q' # <<>>]_vars
    /\ \A r \in RunIds :
          (r < run_id) ~> (r \in Range(started) \/ (r < run_id /\ Token(r)))

\* a run waits in the queue, its token unset, and no supervisor is alive: the
\* supervisor that was about to stop when the run was submitted has stopped
C32_Witness ==
    /\ sup = <<>>
    /\ cg_q # <<>>
    /\ ~Token(Head(cg_q))
    /\ ~helper_thread_running

\* C33: a run is handed to the executor at most once, whatever number of
\* supervisors is alive: a run id is in the queue, or held by one supervisor,
\* or gone, never two of these; it starts at most once and is executed by one
\* thread; a run dequeued with its token set never starts and never comes
\* back to the queue; the queue changes only by the submission of a new run
\* at its end and by a dequeue at its head.
C33_HandedOverOnce ==
    /\ [](\A r \in RunIds :
            /\ Count(cg_q, r) + Cardinality({t \in Threads : sup[t].run = r}) <= 1
            /\ Count(started, r) <= 1
            /\ Cardinality({t \in Threads : ex[t].run = r}) <= 1
            /\ r \in Range(started) \cup presetAtGet \/ outcome[r] # "none"
               => r \notin Range(cg_q)
            /\ r \in presetAtGet
               => r \notin Range(started) /\ \A t \in Threads : ex[t].run # r
            /\ \A t \in Threads :
                  sup[t].pc = "chk" /\ sup[t].run = r
                  => r \notin Range(started) /\ outcome[r] = "none")
    /\ [][\/ cg_q' = cg_q
          \/ cg_q' = Append(cg_q, run_id) /\ run_id' = run_id + 1
          \/ cg_q # <<>> /\ cg_q' = Tail(cg_q)
                /\ \E t \in Threads : sup[t].pc = "get" /\ sup'[t].run = Head(cg_q)]_vars

\* two supervisors alive, each executing the run it dequeued
C33_Witness ==
    /\ Len(started) = 2
    /\ Cardinality(InExecutor) = 2
    /\ \A t \in Threads : sup[t].pc = "join" /\ sup[t].run = ex[t].run

\* C34: every way a run leaves the executor (completion, abort at a check
\* point, NoInfoAvailable, unexpected exception) emits set_progressbar(-1), so
\* with no run executing the progressbar is in its reset state, not at a
\* percentage and not undetermined.
C34_EveryExitResets ==
    /\ \A r \in RunIds :
          outcome[r] # "none" => Count(log[r], Prog(-1)) >= 1
    /\ (\A t \in Threads : ex[t].pc = "none")
       => progressbar.value = -1 /\ progressbar.maximum # 0

\* C35: no run emits both the abort of a cancellation and "Finished": after a
\* check point that found the token set the run emits neither "Idle" nor
\* "Finished"; a run that emitted "Finished" emits nothing more, no "Canceled"
\* either, also when its token is set after its last check point; and an ended
\* run emits nothing and keeps its outcome.
C35_CanceledOrFinished ==
    /\ [](\A r \in RunIds :
            /\ Count(log[r], Lab("Canceled")) = 0 \/ Count(log[r], Sta("Finished")) = 0
            /\ \A i \in Positions(log[r], Chk(TRUE)) :
                  \A j \in (i + 1)..Len(log[r]) :
                      log[r][j] \notin {Lab("Idle"), Sta("Finished")}
            /\ \A i \in Positions(log[r], Sta("Finished")) : i = Len(log[r])
            /\ outcome[r] = "canceled" <=> Count(log[r], Lab("Canceled")) > 0
            /\ outcome[r] \in Ended <=> Count(log[r], Sta("Finished")) > 0)
    /\ [][\A r \in RunIds :
             outcome[r] # "none" => outcome'[r] = outcome[r] /\ log'[r] = log[r]]_vars

\* the token of a run was set after its last check point: the run finished
C35_Witness ==
    \E r \in RunIds :
        /\ outcome[r] = "finished"
        /\ r < run_id /\ Token(r)
        /\ Count(log[r], Chk(FALSE)) >= 1
        /\ Count(log[r], Lab("Canceled")) = 0

\* C36: the list of runs is indexed by run_id -- the run at index i (from 0)
\* has run_id i, after any sequence of submissions -- so cancel_run(id) sets
\* the token of the run with that id and of no other, and leaves the list's
\* length, the submission queue and the result stream as they are.
C36_CancelExactlyThatRun ==
    /\ [](\A i \in DOMAIN runs : runs[i].run_id = i - 1)
    /\ [][\A id \in RunIds :
             cancel_run(id)
             => /\ Len(runs') = Len(runs)
                /\ runs'[id + 1].run_id = id
                /\ runs'[id + 1].event
                /\ \A i \in DOMAIN runs : i # id + 1 => runs'[i] = runs[i]
                /\ cg_q' = cg_q
                /\ q' = q
                /\ drained' = drained]_vars

\* the second of two runs was canceled while it waited in the queue, behind a
\* first run that has pushed a result and whose token is unset
C36_Witness ==
    /\ Len(runs) = 2
    /\ ~runs[1].event /\ runs[2].event
    /\ 1 \in Range(cg_q)
    /\ q # <<>>

\* C37: the timer ticking, every result pushed onto the result stream is
\* taken off it and classified by print_results, whether the run that pushed it
\* finishes, fails or is canceled afterwards, and whether or not another run is
\* executing.
C37_ResultsDrained ==
    \A r \in RunIds, i \in 1..MaxResults :
        (\E k \in DOMAIN q : q[k].run = r /\ q[k].idx = i)
        ~> (\E k \in DOMAIN drained :
               /\ drained[k].run = r /\ drained[k].idx = i
               /\ drained[k].shown =
                     classify([similarity |-> drained[k].similarity,
                               ischeat |-> drained[k].ischeat]))

\* the result of a run that failed after the push has been handled while the
\* next run executes
C37_Witness ==
    /\ \E k \in DOMAIN drained : drained[k].run = 0
    /\ outcome[0] = "failed"
    /\ \E t \in InExecutor : ex[t].run = 1

====
